---- MODULE Spec2Model ----
(***************************************************************************)
(* Model of the PubNub provisioning utilities of the firstorder repository: *)
(*   create_pubnub_resources.py  (names prefixed cpr_)                      *)
(*   setup-pubnub.py             (names prefixed sp_)                       *)
(*   test-api-endpoints.py       (names prefixed probe_)                    *)
(* Each provisioning script is a three stage pipeline: create application,  *)
(* create keyset, persist credentials.  The remote platform and the local   *)
(* disk are the environment: every response of the platform and every       *)
(* outcome of the file write is an input drawn from a small set.            *)
(***************************************************************************)
EXTENDS Integers, Sequences, FiniteSets, TLC

VARIABLES
    run,          \* number of process launches so far
    script,       \* script executed by the current process: "cpr" or "sp"
    pc,           \* position of the current process inside main()
    app_id,       \* main's local app_id
    keyset_data,  \* main's local keyset_data
    exitCode,     \* exit code of the current process, meaningful when pc = "done"
    events,       \* requests and file writes of the current process, in order
    disk,         \* the two destination files
    disk_at_launch, \* the disk as the current process found it
    remoteApps,   \* identifiers of the applications existing on the platform
    nextId,       \* platform side counter used to assign fresh identifiers
    history,      \* application identifiers obtained by earlier processes
    last,         \* script and exit code of the previous process
    probe_i,      \* test-api-endpoints.py: index of the next endpoint
    probe_log     \* test-api-endpoints.py: requests issued so far, in order

vars == <<run, script, pc, app_id, keyset_data, exitCode, events, disk,
          disk_at_launch, remoteApps, nextId, history, last, probe_i, probe_log>>

pipelineVars == <<run, script, pc, app_id, keyset_data, exitCode, events,
                  disk, disk_at_launch, remoteApps, nextId, history, last>>

probeVars == <<probe_i, probe_log>>

\* Number of times the provisioning scripts are launched.
MaxRuns == 2

-----------------------------------------------------------------------------
(* Python values that travel through the pipeline: None or a string.       *)

None == [kind |-> "none", s |-> ""]

Str(x) == [kind |-> "str", s |-> x]

\* Python truth value of a None-or-string value (`if not app_id`, `if publish_key`).
Truthy(v) == v.kind = "str" /\ v.s # ""

\* f-string interpolation "{v}": str(None) is "None", a string is itself.
Format(v) == IF v.kind = "none" THEN "None" ELSE v.s

\* A parsed JSON object: a function from the keys it has to their values.
EmptyDict == [k \in {} |-> None]

\* dict.get(k): the value, or None when the key is absent.
Get(d, k) == IF k \in DOMAIN d THEN d[k] ELSE None

\* keyset_data is either None or the parsed body.
NoData == [present |-> FALSE, d |-> EmptyDict]

Data(d) == [present |-> TRUE, d |-> d]

\* Python truth value of keyset_data: None and the empty dict are falsy.
DataTruthy(kd) == kd.present /\ DOMAIN kd.d # {}

-----------------------------------------------------------------------------
(* Responses of requests.post: a transport fault (the call raises), or a    *)
(* status code with a body that either parses to a JSON object or does not. *)

Fault == [fault |-> TRUE, status |-> 0, json |-> FALSE, data |-> EmptyDict]

Response(st, d) == [fault |-> FALSE, status |-> st, json |-> TRUE, data |-> d]

BadBody(st) == [fault |-> FALSE, status |-> st, json |-> FALSE, data |-> EmptyDict]

OkStatuses == {200, 201}

ErrorStatuses == {401}

FreshAppId == Str("app_" \o ToString(nextId))

FreshPub == Str("pub_" \o ToString(nextId))

FreshSub == Str("sub_" \o ToString(nextId))

\* Bodies the platform may send with a success status to an application creation.
AppBodies ==
    { EmptyDict,
      [k \in {"name"} |-> Str("Swap It Game")],
      [k \in {"id"} |-> None],
      [k \in {"id"} |-> Str("")],
      [k \in {"id", "name"} |-> IF k = "id" THEN FreshAppId ELSE Str("Swap It Game")] }

AppResponses ==
    {Fault} \cup {BadBody(st) : st \in ErrorStatuses \cup OkStatuses}
            \cup {Response(st, d) : st \in OkStatuses, d \in AppBodies}

\* The platform has created an application exactly when it answers success
\* with the identifier it assigned.
AppCreated(resp) ==
    ~resp.fault /\ resp.status \in OkStatuses /\ resp.json
        /\ Truthy(Get(resp.data, "id"))

PubField(naming) == IF naming = "camel" THEN "publishKey" ELSE "publish_key"

SubField(naming) == IF naming = "camel" THEN "subscribeKey" ELSE "subscribe_key"

\* Marks a field the body does not have.
Omitted == [kind |-> "omitted", s |-> ""]

\* A keyset body: each credential field is omitted or carries a value.
KeysetDict(naming, p, s) ==
    LET dom == (IF p = Omitted THEN {} ELSE {PubField(naming)})
               \cup (IF s = Omitted THEN {} ELSE {SubField(naming)})
    IN  [k \in dom |-> IF k = PubField(naming) THEN p ELSE s]

KeysetBodies ==
    { KeysetDict(n, p, s) : n \in {"camel", "snake"},
                            p \in {Omitted, None, Str(""), FreshPub},
                            s \in {Omitted, None, Str(""), FreshSub} }
    \cup { [k \in {"id"} |-> Str("ks_1")] }

KeysetResponses ==
    {Fault} \cup {BadBody(st) : st \in ErrorStatuses \cup OkStatuses}
            \cup {Response(st, d) : st \in OkStatuses, d \in KeysetBodies}

KeysetCreated(resp) ==
    ~resp.fault /\ resp.status \in OkStatuses /\ resp.json
        /\ \E k \in DOMAIN resp.data : Truthy(resp.data[k])

-----------------------------------------------------------------------------
(* Local disk.                                                              *)

cpr_env_path == ".env"

sp_env_path == "/Users/craig/Documents/gits/swapit/client/.env"

Paths == {cpr_env_path, sp_env_path}

Absent == [exists |-> FALSE, lines |-> <<>>]

File(lines) == [exists |-> TRUE, lines |-> lines]

OldFile == File(<<"VITE_PUBNUB_PUBLISH_KEY=old_pub", "OTHER_SETTING=1">>)

WriteOutcomes == {"ok", "open_fails", "write_fails"}

\* with open(path, 'w') as f: f.write(content).  Mode 'w' truncates when the
\* open succeeds; a failing open leaves the disk alone, a failing write
\* leaves the truncated file.
WriteFile(d, path, lines, outcome) ==
    CASE outcome = "open_fails"  -> d
      [] outcome = "write_fails" -> [d EXCEPT ![path] = File(<<>>)]
      [] OTHER                   -> [d EXCEPT ![path] = File(lines)]

-----------------------------------------------------------------------------
(* What the functions of the scripts return.                                *)

Returned(v) == [raised |-> FALSE, value |-> v]

Raised == [raised |-> TRUE, value |-> None]

RaisedData == [raised |-> TRUE, value |-> NoData]

\* One entry of the log of outbound requests and file writes.
Event(op, method, path, body_app_id, resp) ==
    [op |-> op, method |-> method, path |-> path, app_id |-> body_app_id,
     resp |-> resp]

\* Outcome of a file write, recorded in the shape of a response.
WriteResult(outcome) ==
    [fault |-> outcome # "ok", status |-> 0, json |-> FALSE, data |-> EmptyDict]

\* Effect on the platform of requests issued while aborting: a DELETE of
\* /apps/<id> removes that application.
PlatformAfter(apps, reqs) ==
    apps \ { reqs[i].path[2] : i \in {j \in DOMAIN reqs : reqs[j].method = "DELETE"} }

-----------------------------------------------------------------------------
(* create_pubnub_resources.py                                               *)

\* create_app: requests.post raises on a transport fault, response.json()
\* raises on a body that is not JSON; otherwise the id or None.
cpr_create_app(resp) ==
    IF resp.fault THEN Raised
    ELSE IF resp.status \in {200, 201}
         THEN IF resp.json THEN Returned(Get(resp.data, "id")) ELSE Raised
         ELSE Returned(None)

\* Variant of the URL built from the keyset name instead of the id.
cpr_keyset_path_by_name(id, name) == <<"apps", name, "keysets">>

\* URL of the keyset creation request, below BASE_URL.
cpr_keyset_path(id, name) == <<"apps", Format(id), "keysets">>

cpr_create_keyset(resp) ==
    IF resp.fault THEN RaisedData
    ELSE IF resp.status \in {200, 201}
         THEN IF resp.json THEN Returned(Data(resp.data)) ELSE RaisedData
         ELSE Returned(NoData)

\* Content of the file written by create_env_file, line by line.
cpr_env_content(publish_key, subscribe_key) ==
    << "# PubNub Configuration for Swap It!",
       "# Generated automatically",
       "",
       "VITE_PUBNUB_PUBLISH_KEY=" \o Format(publish_key),
       "VITE_PUBNUB_SUBSCRIBE_KEY=" \o Format(subscribe_key) >>

\* main's guard in front of create_env_file.
cpr_keys_ok(publish_key, subscribe_key) ==
    Truthy(publish_key) /\ Truthy(subscribe_key)

\* Variant of the test: `if app_id is None`.
cpr_no_app_is_none(id) == id.kind = "none"

\* main's test after create_app: `if not app_id`.
cpr_no_app(id) == ~Truthy(id)

\* main's test after create_keyset: `if not keyset_data`.
cpr_no_keyset(kd) == ~DataTruthy(kd)

\* Variant of the handler that only prints the exception.
cpr_handler_only_prints(raised) == IF raised THEN 0 ELSE 0

\* Exit code of the process when main() ends by itself: 0 after a normal
\* return, 1 from the handler `except Exception: ... sys.exit(1)`.
cpr_handler_exit(raised) == IF raised THEN 1 ELSE 0

\* Variant of main that deletes the application before it exits.
cpr_abort_requests_rollback(id) ==
    << Event("delete_app", "DELETE", <<"apps", Format(id)>>, None,
             Response(204, EmptyDict)) >>

\* Requests main issues between detecting a failure and exiting: none.
cpr_abort_requests(id) == <<>>

\* main, lines 125-129: create the application, stop when there is no id.
cpr_main_create_app ==
    /\ script = "cpr" /\ pc = "create_app"
    /\ \E resp \in AppResponses :
         LET r  == cpr_create_app(resp)
             ev == Event("create_app", "POST", <<"apps">>, None, resp)
         IN  /\ events' = Append(events, ev)
             /\ remoteApps' = IF AppCreated(resp)
                                THEN remoteApps \cup {Get(resp.data, "id").s}
                                ELSE remoteApps
             /\ nextId' = IF AppCreated(resp) THEN nextId + 1 ELSE nextId
             /\ IF r.raised
                   THEN pc' = "done" /\ exitCode' = cpr_handler_exit(TRUE)
                        /\ app_id' = app_id
                   ELSE IF cpr_no_app(r.value)
                   THEN pc' = "done" /\ exitCode' = 1 /\ app_id' = r.value
                   ELSE pc' = "create_keyset" /\ exitCode' = exitCode
                        /\ app_id' = r.value
    /\ UNCHANGED <<run, script, keyset_data, disk, disk_at_launch, history, last, probeVars>>

\* main, lines 131-135: create the keyset, stop when there is no data.
cpr_main_create_keyset ==
    /\ script = "cpr" /\ pc = "create_keyset"
    /\ \E resp \in KeysetResponses :
         LET r  == cpr_create_keyset(resp)
             ev == Event("create_keyset", "POST",
                         cpr_keyset_path(app_id, "Swap It Production"), None, resp)
             failed == r.raised \/ cpr_no_keyset(r.value)
             extra  == IF failed THEN cpr_abort_requests(app_id) ELSE <<>>
         IN  /\ events' = Append(events, ev) \o extra
             /\ remoteApps' = PlatformAfter(remoteApps, extra)
             /\ nextId' = IF KeysetCreated(resp) THEN nextId + 1 ELSE nextId
             /\ IF r.raised
                   THEN pc' = "done" /\ exitCode' = cpr_handler_exit(TRUE)
                        /\ keyset_data' = keyset_data
                   ELSE IF cpr_no_keyset(r.value)
                   THEN pc' = "done" /\ exitCode' = 1 /\ keyset_data' = r.value
                   ELSE pc' = "persist" /\ exitCode' = exitCode
                        /\ keyset_data' = r.value
    /\ UNCHANGED <<run, script, app_id, disk, disk_at_launch, history, last, probeVars>>

\* main, lines 137-145: extract the keys, write .env when both are there.
cpr_main_persist ==
    /\ script = "cpr" /\ pc = "persist"
    /\ LET publish_key   == Get(keyset_data.d, "publishKey")
           subscribe_key == Get(keyset_data.d, "subscribeKey")
       IN  IF cpr_keys_ok(publish_key, subscribe_key)
           THEN \E outcome \in WriteOutcomes :
                  LET ev    == Event("persist", "FILE", <<cpr_env_path>>, None,
                                     WriteResult(outcome))
                      extra == IF outcome = "ok" THEN <<>>
                               ELSE cpr_abort_requests(app_id)
                  IN  /\ disk' = WriteFile(disk, cpr_env_path,
                                   cpr_env_content(publish_key, subscribe_key),
                                   outcome)
                      /\ events' = Append(events, ev) \o extra
                      /\ remoteApps' = PlatformAfter(remoteApps, extra)
                      /\ exitCode' = cpr_handler_exit(outcome # "ok")
           ELSE /\ disk' = disk
                /\ events' = events \o cpr_abort_requests(app_id)
                /\ remoteApps' = PlatformAfter(remoteApps, cpr_abort_requests(app_id))
                /\ exitCode' = 1
    /\ pc' = "done"
    /\ UNCHANGED <<run, script, app_id, keyset_data, disk_at_launch, nextId,
                   history, last, probeVars>>

-----------------------------------------------------------------------------
(* setup-pubnub.py                                                          *)

\* Variant of create_app that reuses an application of an earlier run.
sp_create_app_reuse(resp) ==
    IF resp.fault THEN Raised
    ELSE IF history # {} THEN Returned(Str(CHOOSE a \in history : TRUE))
    ELSE IF resp.status \in {200, 201}
         THEN IF resp.json THEN Returned(Get(resp.data, "id")) ELSE Raised
         ELSE Returned(None)

sp_create_app(resp) ==
    IF resp.fault THEN Raised
    ELSE IF resp.status \in {200, 201}
         THEN IF resp.json THEN Returned(Get(resp.data, "id")) ELSE Raised
         ELSE Returned(None)

\* The "app_id" field of keyset_config, the body of the keyset request.
sp_keyset_config_app_id(id, name) == id

sp_create_keyset(resp) ==
    IF resp.fault THEN RaisedData
    ELSE IF resp.status \in {200, 201}
         THEN IF resp.json THEN Returned(Data(resp.data)) ELSE RaisedData
         ELSE Returned(NoData)

\* Variant of save_env_file with the two keys exchanged.
sp_env_content_swapped(pub_key, sub_key) ==
    << "VITE_PUBNUB_PUBLISH_KEY=" \o Format(sub_key),
       "VITE_PUBNUB_SUBSCRIBE_KEY=" \o Format(pub_key) >>

\* Content of the file written by save_env_file, line by line.
sp_env_content(pub_key, sub_key) ==
    << "VITE_PUBNUB_PUBLISH_KEY=" \o Format(pub_key),
       "VITE_PUBNUB_SUBSCRIBE_KEY=" \o Format(sub_key) >>

\* main's test after create_app: `if not app_id`.
sp_no_app(id) == ~Truthy(id)

\* main's test after create_keyset: `if not keyset_data`.
sp_no_keyset(kd) == ~DataTruthy(kd)

\* main() is called without a handler: an exception that escapes it ends
\* the interpreter with a traceback and exit code 1.
sp_uncaught_exit == 1

\* Requests main issues between detecting a failure and exiting: none.
sp_abort_requests(id) == <<>>

\* Variant of main that asks again when it got no application id.
sp_main_create_app_retry ==
    /\ script = "sp" /\ pc = "create_app"
    /\ \E resp \in AppResponses :
         LET r  == sp_create_app(resp)
             ev == Event("create_app", "POST", <<"apps">>, None, resp)
         IN  /\ events' = Append(events, ev)
             /\ remoteApps' = IF AppCreated(resp)
                                THEN remoteApps \cup {Get(resp.data, "id").s}
                                ELSE remoteApps
             /\ nextId' = IF AppCreated(resp) THEN nextId + 1 ELSE nextId
             /\ IF r.raised
                   THEN pc' = "done" /\ exitCode' = sp_uncaught_exit
                        /\ app_id' = app_id
                   ELSE IF sp_no_app(r.value)
                   THEN pc' = "create_app" /\ exitCode' = exitCode
                        /\ app_id' = r.value
                   ELSE pc' = "create_keyset" /\ exitCode' = exitCode
                        /\ app_id' = r.value
    /\ UNCHANGED <<run, script, keyset_data, disk, disk_at_launch, history, last,
                   probeVars>>

\* main, lines 112-116.
sp_main_create_app ==
    /\ script = "sp" /\ pc = "create_app"
    /\ \E resp \in AppResponses :
         LET r  == sp_create_app(resp)
             ev == Event("create_app", "POST", <<"apps">>, None, resp)
         IN  /\ events' = Append(events, ev)
             /\ remoteApps' = IF AppCreated(resp)
                                THEN remoteApps \cup {Get(resp.data, "id").s}
                                ELSE remoteApps
             /\ nextId' = IF AppCreated(resp) THEN nextId + 1 ELSE nextId
             /\ IF r.raised
                   THEN pc' = "done" /\ exitCode' = sp_uncaught_exit
                        /\ app_id' = app_id
                   ELSE IF sp_no_app(r.value)
                   THEN pc' = "done" /\ exitCode' = 1 /\ app_id' = r.value
                   ELSE pc' = "create_keyset" /\ exitCode' = exitCode
                        /\ app_id' = r.value
    /\ UNCHANGED <<run, script, keyset_data, disk, disk_at_launch, history, last, probeVars>>

\* main, lines 118-122.
sp_main_create_keyset ==
    /\ script = "sp" /\ pc = "create_keyset"
    /\ \E resp \in KeysetResponses :
         LET r  == sp_create_keyset(resp)
             ev == Event("create_keyset", "POST", <<"keys">>,
                         sp_keyset_config_app_id(app_id, "Swap It Game Keys"), resp)
             failed == r.raised \/ sp_no_keyset(r.value)
             extra  == IF failed THEN sp_abort_requests(app_id) ELSE <<>>
         IN  /\ events' = Append(events, ev) \o extra
             /\ remoteApps' = PlatformAfter(remoteApps, extra)
             /\ nextId' = IF KeysetCreated(resp) THEN nextId + 1 ELSE nextId
             /\ IF r.raised
                   THEN pc' = "done" /\ exitCode' = sp_uncaught_exit
                        /\ keyset_data' = keyset_data
                   ELSE IF sp_no_keyset(r.value)
                   THEN pc' = "done" /\ exitCode' = 1 /\ keyset_data' = r.value
                   ELSE pc' = "persist" /\ exitCode' = exitCode
                        /\ keyset_data' = r.value
    /\ UNCHANGED <<run, script, app_id, disk, disk_at_launch, history, last, probeVars>>

\* main, lines 124-128: the two keys go to save_env_file as they come.
sp_main_persist ==
    /\ script = "sp" /\ pc = "persist"
    /\ LET pub_key == Get(keyset_data.d, "publish_key")
           sub_key == Get(keyset_data.d, "subscribe_key")
       IN  \E outcome \in WriteOutcomes :
             LET ev    == Event("persist", "FILE", <<sp_env_path>>, None,
                                WriteResult(outcome))
                 extra == IF outcome = "ok" THEN <<>>
                          ELSE sp_abort_requests(app_id)
             IN  /\ disk' = WriteFile(disk, sp_env_path,
                                      sp_env_content(pub_key, sub_key), outcome)
                 /\ events' = Append(events, ev) \o extra
                 /\ remoteApps' = PlatformAfter(remoteApps, extra)
                 /\ exitCode' = IF outcome = "ok" THEN 0 ELSE sp_uncaught_exit
    /\ pc' = "done"
    /\ UNCHANGED <<run, script, app_id, keyset_data, disk_at_launch, nextId,
                   history, last, probeVars>>

-----------------------------------------------------------------------------
(* Launching a script: a new process with fresh locals; the disk and the    *)
(* platform are what earlier processes left.                                *)

Scripts == {"cpr", "sp"}

NoProcess == [script |-> "none", exitCode |-> 0]

launch ==
    /\ pc \in {"idle", "done"}
    /\ run < MaxRuns
    /\ run' = run + 1
    /\ script' \in Scripts
    /\ pc' = "create_app"
    /\ app_id' = None
    /\ keyset_data' = NoData
    /\ exitCode' = 0
    /\ events' = <<>>
    /\ history' = IF Truthy(app_id) THEN history \cup {app_id.s} ELSE history
    /\ last' = IF pc = "done" THEN [script |-> script, exitCode |-> exitCode]
               ELSE NoProcess
    /\ disk_at_launch' = disk
    /\ UNCHANGED <<disk, remoteApps, nextId, probeVars>>

-----------------------------------------------------------------------------
(* test-api-endpoints.py                                                    *)

endpoints ==
    << <<"GET", "https://ps.pndsn.com/v2/apps", "List apps v2">>,
       <<"GET", "https://admin.pubnub.com/api/v1/apps", "List apps v1">>,
       <<"GET", "https://ps.pndsn.com/api/v2/apps", "List apps v2 alt">>,
       <<"GET", "https://ps.pndsn.com/v2/keysets", "List keysets v2">>,
       <<"GET", "https://ps.pndsn.com/v2/keys", "List keys v2">> >>

\* What one probe can end in: a status, or an exception of requests
\* (the timeout of 5 seconds, a refused connection).
ProbeOutcomes == {"200", "404", "timeout", "connection_error"}

ProbeRaises(outcome) == outcome \in {"timeout", "connection_error"}

\* The call made for an entry: requests.get for "GET", requests.post otherwise.
probe_call(method) == IF method = "GET" THEN "GET" ELSE "POST"

\* Variant of the loop that stops at the first exception.
probe_stop_on_error(i, raised) == IF raised THEN Len(endpoints) + 1 ELSE i + 1

\* Where the loop goes after an entry; `except Exception` only prints.
probe_continue(i, raised) == i + 1

\* One iteration of the for loop.
probe_step ==
    /\ probe_i <= Len(endpoints)
    /\ \E outcome \in ProbeOutcomes :
         /\ probe_log' = Append(probe_log,
                [method |-> probe_call(endpoints[probe_i][1]),
                 url |-> endpoints[probe_i][2],
                 printed |-> IF ProbeRaises(outcome) THEN "Error" ELSE outcome])
         /\ probe_i' = probe_continue(probe_i, ProbeRaises(outcome))
    /\ UNCHANGED pipelineVars

-----------------------------------------------------------------------------
(* Specifications.                                                          *)

Init ==
    /\ run = 0
    /\ script = "cpr"
    /\ pc = "idle"
    /\ app_id = None
    /\ keyset_data = NoData
    /\ exitCode = 0
    /\ events = <<>>
    /\ disk \in {[p \in Paths |-> Absent], [p \in Paths |-> OldFile]}
    /\ disk_at_launch = disk
    /\ remoteApps = {}
    /\ nextId = 1
    /\ history = {}
    /\ last = NoProcess
    /\ probe_i = 1
    /\ probe_log = <<>>

Next ==
    \/ launch
    \/ cpr_main_create_app
    \/ cpr_main_create_keyset
    \/ cpr_main_persist
    \/ sp_main_create_app
    \/ sp_main_create_keyset
    \/ sp_main_persist

Spec == Init /\ [][Next]_vars

ProbeNext == probe_step

\* Every request of the probe has timeout=5, so an iteration always ends.
ProbeSpec == Init /\ [][ProbeNext]_vars /\ WF_vars(ProbeNext)

-----------------------------------------------------------------------------
(* Properties.                                                              *)

AppRequests == SelectSeq(events, LAMBDA e : e.op = "create_app")

KeysetRequests == SelectSeq(events, LAMBDA e : e.op = "create_keyset")

Writes == SelectSeq(events, LAMBDA e : e.op = "persist")

\* The response is a success carrying a usable application identifier.
GoodAppResponse(resp) ==
    /\ ~resp.fault
    /\ resp.status \in {200, 201}
    /\ "id" \in DOMAIN resp.data
    /\ resp.data["id"].kind = "str"
    /\ resp.data["id"].s # ""

\* The credential fields each script reads from the keyset body.
PubName == IF script = "cpr" THEN "publishKey" ELSE "publish_key"

SubName == IF script = "cpr" THEN "subscribeKey" ELSE "subscribe_key"

HasCredential(d, k) == k \in DOMAIN d /\ d[k].kind = "str" /\ d[k].s # ""

\* The response is a success carrying both credentials.
GoodKeysetResponse(resp) ==
    /\ ~resp.fault
    /\ resp.status \in {200, 201}
    /\ HasCredential(resp.data, PubName)
    /\ HasCredential(resp.data, SubName)

EnvPath == IF script = "cpr" THEN cpr_env_path ELSE sp_env_path

\* C1: an application-creation response with a status outside {200, 201}
\* or without a non-empty id ends the run with a non-zero exit code and
\* without a keyset request; a keyset request only ever follows a good
\* application-creation response.
C1_NoKeysetWithoutApp ==
    /\ \A i \in DOMAIN events :
          events[i].op = "create_keyset" =>
             \E j \in 1..(i - 1) : /\ events[j].op = "create_app"
                                   /\ GoodAppResponse(events[j].resp)
    /\ \A i \in DOMAIN events :
          (/\ events[i].op = "create_app"
           /\ ~events[i].resp.fault
           /\ ~GoodAppResponse(events[i].resp))
             => /\ pc = "done"
                /\ exitCode # 0
                /\ Len(KeysetRequests) = 0

\* A run of create_pubnub_resources.py stopped by a 200 response whose id
\* is the empty string.
C1_Witness ==
    /\ script = "cpr" /\ pc = "done" /\ exitCode = 1
    /\ Len(events) = 1
    /\ events[1].resp.status = 200
    /\ "id" \in DOMAIN events[1].resp.data
    /\ events[1].resp.data["id"] = Str("")

\* C2: when the keyset-creation response lacks a credential the file is
\* not written, the destination keeps its content and the exit code is
\* non-zero; a write happens only with both credentials non-empty.
C2_NoWriteWithoutCredentials ==
    /\ Len(Writes) > 0 =>
          /\ Len(KeysetRequests) = 1
          /\ GoodKeysetResponse(KeysetRequests[1].resp)
    /\ (/\ pc = "done"
        /\ Len(KeysetRequests) = 1
        /\ ~KeysetRequests[1].resp.fault
        /\ ~GoodKeysetResponse(KeysetRequests[1].resp))
          => /\ exitCode # 0
             /\ disk = disk_at_launch

\* The run wrote its credentials file.
FileWritten == Len(Writes) = 1 /\ ~Writes[1].resp.fault

FullSuccess ==
    /\ Len(AppRequests) = 1 /\ GoodAppResponse(AppRequests[1].resp)
    /\ Len(KeysetRequests) = 1 /\ GoodKeysetResponse(KeysetRequests[1].resp)
    /\ FileWritten

\* C3: the exit code is 0 exactly when the run was a full success: a good
\* application response, a good keyset response and the file written.
C3_ExitZeroIffFullSuccess ==
    pc = "done" => (exitCode = 0 <=> FullSuccess)

\* The credentials of a good keyset response.
ReturnedPub == KeysetRequests[1].resp.data[PubName].s

ReturnedSub == KeysetRequests[1].resp.data[SubName].s

TwoLines ==
    << "VITE_PUBNUB_PUBLISH_KEY=" \o ReturnedPub,
       "VITE_PUBNUB_SUBSCRIBE_KEY=" \o ReturnedSub >>

HeaderLines ==
    << "# PubNub Configuration for Swap It!", "# Generated automatically", "" >>

SuccessfulRun ==
    /\ pc = "done" /\ exitCode = 0
    /\ Len(KeysetRequests) = 1
    /\ GoodKeysetResponse(KeysetRequests[1].resp)

OtherFilesUntouched ==
    \A q \in Paths \ {EnvPath} : disk[q] = disk_at_launch[q]

ScopedTo(req, X) ==
    IF script = "cpr"
    THEN req.method = "POST" /\ req.path = <<"apps", X.s, "keysets">>
    ELSE req.method = "POST" /\ req.path = <<"keys">> /\ req.app_id = X

\* C5 as stated: after a success response to the application creation
\* with an id X present in the body, the run is about to issue, or has
\* issued, exactly one keyset request, scoped to X.
C5_PresentIdProceeds ==
    \A i \in DOMAIN events :
       (/\ events[i].op = "create_app"
        /\ ~events[i].resp.fault
        /\ events[i].resp.status \in {200, 201}
        /\ "id" \in DOMAIN events[i].resp.data)
          => \/ pc = "create_keyset" /\ Len(KeysetRequests) = 0
             \/ /\ Len(KeysetRequests) = 1
                /\ ScopedTo(KeysetRequests[1], events[i].resp.data["id"])

\* C5 amended: the same for an id that is present and non-empty.
C5_NonEmptyIdProceeds ==
    \A i \in DOMAIN events :
       (events[i].op = "create_app" /\ GoodAppResponse(events[i].resp))
          => \/ pc = "create_keyset" /\ Len(KeysetRequests) = 0
             \/ /\ Len(KeysetRequests) = 1
                /\ ScopedTo(KeysetRequests[1], events[i].resp.data["id"])
                /\ app_id = events[i].resp.data["id"]

\* create_pubnub_resources.py has issued its keyset request after a 201.
C5_Witness ==
    /\ script = "cpr"
    /\ Len(AppRequests) = 1 /\ AppRequests[1].resp.status = 201
    /\ GoodAppResponse(AppRequests[1].resp)
    /\ Len(KeysetRequests) = 1
    /\ KeysetRequests[1].path[2] = AppRequests[1].resp.data["id"].s

\* C6: a transport fault of either request ends the run with a non-zero
\* exit code, nothing is requested afterwards and no file is written; a
\* fault of the file write ends the run with a non-zero exit code.
C6_FaultAborts ==
    \A i \in DOMAIN events :
       events[i].resp.fault =>
          /\ pc = "done"
          /\ exitCode # 0
          /\ i = Len(events)
          /\ events[i].op # "persist" => disk = disk_at_launch

\* create_pubnub_resources.py met a transport fault on its keyset request.
C6_Witness ==
    /\ script = "cpr" /\ pc = "done" /\ exitCode = 1
    /\ Len(events) = 2
    /\ events[2].op = "create_keyset" /\ events[2].resp.fault

Ops == [i \in DOMAIN events |-> events[i].op]

Pipeline == <<"create_app", "create_keyset", "persist">>

\* C7: the operations of a run are, in this order and each at most once,
\* create application, create keyset, write the file; nothing is retried
\* and nothing is requested after the write.
C7_StrictSequence ==
    /\ Len(events) <= Len(Pipeline)
    /\ Ops = SubSeq(Pipeline, 1, Len(events))
    /\ pc = "create_app" => Len(events) = 0
    /\ pc = "create_keyset" => Len(events) = 1
    /\ pc = "persist" => Len(events) = 2

\* A run that went through the three operations.
C7_Witness ==
    /\ pc = "done" /\ Ops = Pipeline
    /\ ~events[3].resp.fault

\* C8: a run issues nothing but the two creation requests, so when it
\* ends in failure after the application was created, that application
\* still exists on the platform, as do those of earlier runs.
C8_NoRollback ==
    /\ \A i \in DOMAIN events :
          events[i].method \in {"POST", "FILE"}
    /\ (/\ pc = "done" /\ exitCode # 0
        /\ Len(AppRequests) = 1
        /\ GoodAppResponse(AppRequests[1].resp))
          => AppRequests[1].resp.data["id"].s \in remoteApps
    /\ history \subseteq remoteApps

\* create_pubnub_resources.py failed at the keyset and left its application.
C8_Witness ==
    /\ script = "cpr" /\ pc = "done" /\ exitCode = 1
    /\ Len(KeysetRequests) = 1
    /\ KeysetRequests[1].resp.status = 401
    /\ app_id.s \in remoteApps

Range(f) == {f[i] : i \in DOMAIN f}

\* C9: every run issues its own application creation request whatever
\* earlier runs created, the identifier it obtains is none of the earlier
\* ones, and after a successful later run the file holds the credentials
\* of that run and no others.
C9_RunsIndependent ==
    /\ pc \in {"create_keyset", "persist", "done"} => Len(AppRequests) = 1
    /\ Truthy(app_id) =>
          /\ app_id.s \notin history
          /\ Len(AppRequests) = 1
          /\ app_id = Get(AppRequests[1].resp.data, "id")
    /\ (run >= 2 /\ SuccessfulRun) =>
          /\ Range(TwoLines) \subseteq Range(disk[EnvPath].lines)
          /\ Range(disk[EnvPath].lines) \subseteq
                Range(TwoLines) \cup Range(HeaderLines)

\* The same script succeeded twice in a row.
C9_Witness ==
    /\ run = 2 /\ SuccessfulRun
    /\ last = [script |-> script, exitCode |-> 0]
    /\ history # {}
    /\ disk_at_launch[EnvPath].exists
    /\ disk_at_launch[EnvPath] # OldFile
    /\ disk_at_launch[EnvPath] # disk[EnvPath]

ProbeDone == probe_i > Len(endpoints)

\* The requests issued so far are those of the first entries of the
\* list, one each, in order, all of them GET.
ProbePrefix ==
    /\ Len(probe_log) = probe_i - 1
    /\ \A k \in DOMAIN probe_log :
          /\ probe_log[k].method = "GET"
          /\ probe_log[k].url = endpoints[k][2]

\* C10: the probe issues one GET per entry of the list, in list order,
\* an error on one entry does not stop the later ones, and the script
\* reaches the end of the list.
C10_ProbeCompletes ==
    /\ []ProbePrefix
    /\ [](ProbeDone => Len(probe_log) = Len(endpoints))
    /\ <>ProbeDone

\* The probe ended although its first two requests failed.
C10_Witness ==
    /\ ProbeDone
    /\ Len(probe_log) = 5
    /\ probe_log[1].printed = "Error"
    /\ probe_log[2].printed = "404"
    /\ probe_log[5].printed = "200"

====
